---- MODULE Spec2Model ----
(***************************************************************************)
(* Model of the two simulation scripts of the Donther e-bike repository:   *)
(*   battery_simulation.py     simulate_battery_scenario and the caller's  *)
(*                             summary calculations                        *)
(*   BLDC_motor_simulation.py  rectify_dc                                  *)
(*                                                                         *)
(* Arithmetic is exact.  Powers are whole watts and times whole seconds,   *)
(* so every energy is held in watt-seconds: the source's value in Wh is    *)
(* the model's value divided by SecPerHour (P * (dt/3600) Wh = P * dt Ws). *)
(* Quantities the source divides further (kWh, minutes, the mean of three  *)
(* currents, the linspace samples) are rationals [num, den].  The sine of  *)
(* the synthesized regen profile is evaluated only at whole quarter        *)
(* periods, where it is 0, 1 or -1; the synthesized configurations of the  *)
(* model are those whose samples fall on quarter periods.  The rounding of *)
(* binary floating point is not modelled.                                  *)
(***************************************************************************)
EXTENDS Integers, Sequences, FiniteSets, TLC

VARIABLES
    pc,                      \* where the caller is: ready, returned, raised, summarized, summary_raised
    args,                    \* the arguments of the call to simulate_battery_scenario
    ncalls,                  \* calls made so far
    prev,                    \* what the previous call with these arguments returned
    battery_capacity_wh,     \* locals of simulate_battery_scenario as the call left them
    soc_wh,
    steps,
    time_array,
    regen_power_profile,
    solar_power_profile,
    consumption_power_profile,
    soc_history_wh,
    net_power_profile,
    soc_history_kwh,
    time_minutes,
    summary,                 \* the caller's summary calculations
    ia, ib, ic,              \* BLDC_motor_simulation: the three phase current arrays
    dc_voltage,              \* BLDC_motor_simulation: rectify_dc's result
    motor_pc                 \* BLDC_motor_simulation: off, solved, rectified

locals == <<battery_capacity_wh, soc_wh, steps, time_array, regen_power_profile,
            solar_power_profile, consumption_power_profile, soc_history_wh,
            net_power_profile, soc_history_kwh, time_minutes>>
battery_vars == <<pc, args, ncalls, prev, locals, summary>>
motor_vars == <<ia, ib, ic, dc_voltage, motor_pc>>
vars == <<battery_vars, motor_vars>>

-----------------------------------------------------------------------------
(* Units and program constants *)

SecPerHour == 3600
WhPerKwh == 1000
MinuteSec == 60
PercentScale == 100
RegenMeanW == 75
RegenPeriodSec == 600
Phases == 3

(* Bounds of the model *)
MaxRegenLen == 3
MaxCalls == 3
MaxSamples == 2

-----------------------------------------------------------------------------
(* Rationals *)

Rat(n, d) == [num |-> n, den |-> d]
RatEq(a, b) == IF a.den = b.den THEN a.num = b.num ELSE a.num * b.den = b.num * a.den
RatLeq(a, b) == IF a.den = b.den THEN a.num <= b.num ELSE a.num * b.den <= b.num * a.den

\* the array that function f on 1..n is
Array(f) == f \o <<>>

Full(n, v) == Array([k \in 1..n |-> v])

PyMax(a, b) == IF b > a THEN b ELSE a
PyMin(a, b) == IF b < a THEN b ELSE a

-----------------------------------------------------------------------------
(* simulate_battery_scenario *)

CapacityWh(battery_capacity_kwh) == battery_capacity_kwh * WhPerKwh * SecPerHour

InitialSocCarried(initial_soc_percent, capacity_wh) ==
    IF prev.outcome = "returned" /\ Len(prev.value[2]) > 0
    THEN prev.value[2][Len(prev.value[2])].num
    ELSE (capacity_wh \div PercentScale) * initial_soc_percent

InitialSocAlwaysFull(initial_soc_percent, capacity_wh) == capacity_wh

\* capacity_wh is a multiple of PercentScale, so the division is exact
InitialSoc(initial_soc_percent, capacity_wh) ==
    (capacity_wh \div PercentScale) * initial_soc_percent

StepsCeil(total_time_sec, dt_sec) == (total_time_sec + dt_sec - 1) \div dt_sec

Steps(total_time_sec, dt_sec) == total_time_sec \div dt_sec

\* np.linspace(start, stop, num): num samples, both end points included
Linspace(start, stop, n) ==
    Array([k \in 1..n |-> IF n = 1 THEN Rat(start, 1)
                          ELSE Rat(start * (n - 1) + (k - 1) * (stop - start), n - 1)])

\* whether the sample time t lies on a whole quarter of the regen period
OnQuarter(t) == (4 * t.num) % (RegenPeriodSec * t.den) = 0

\* sin(2 * pi * t / 600) for t on a quarter period
SinOfPeriod(t) ==
    LET q == ((4 * t.num) \div (RegenPeriodSec * t.den)) % 4
    IN CASE q = 0 -> 0
         [] q = 1 -> 1
         [] q = 2 -> 0
         [] q = 3 -> -1

SynthRegen(t) == RegenMeanW * (1 + SinOfPeriod(t))

\* P watts over dt_sec seconds, in watt-seconds
EnergyWh(power_w, dt_sec) == power_w * dt_sec

ClampNoFloor(soc, capacity_wh) == PyMin(soc, capacity_wh)

ClampNoCeiling(soc, capacity_wh) == PyMax(soc, 0)

Clamp(soc, capacity_wh) == PyMin(PyMax(soc, 0), capacity_wh)

NetPowerClamped(regen_w, solar_w, consumption_w) == PyMax(regen_w + solar_w - consumption_w, 0)

NetPower(regen_w, solar_w, consumption_w) == regen_w + solar_w - consumption_w

\* the locals of a call as the loop finds them (lines 35 to 50)
Entry(a) ==
    LET cap == CapacityWh(a.battery_capacity_kwh)
        n == Steps(a.total_time_sec, a.dt_sec)
        ta == IF a.regen_given THEN <<>> ELSE Linspace(0, a.total_time_sec, n)
    IN [battery_capacity_wh |-> cap,
        soc_wh |-> InitialSoc(a.initial_soc_percent, cap),
        steps |-> n,
        dt_sec |-> a.dt_sec,
        time_array |-> ta,
        regen_power_profile |->
            IF a.regen_given THEN a.regen_power_profile
            ELSE Array([k \in 1..n |-> SynthRegen(ta[k])]),
        solar_power_profile |-> Full(n, a.solar_power_w),
        consumption_power_profile |-> Full(n, a.consumption_power_w)]

\* the state the loop carries from one iteration to the next
LoopStart(soc) ==
    [soc_wh |-> soc, soc_history_wh |-> <<>>, net_power_profile |-> <<>>, raised |-> FALSE]

LoopBodyCarry(f, st, i) ==
    IF st.raised THEN st
    ELSE IF i + 1 > Len(f.regen_power_profile) THEN [st EXCEPT !.raised = TRUE]
    ELSE LET regen_w == f.regen_power_profile[i + 1]
             solar_w == f.solar_power_profile[i + 1]
             consumption_w == f.consumption_power_profile[i + 1]
             running == st.soc_wh + EnergyWh(regen_w + solar_w, f.dt_sec)
                                  - EnergyWh(consumption_w, f.dt_sec)
         IN [soc_wh |-> running,
             soc_history_wh |->
                 Append(st.soc_history_wh, Clamp(running, f.battery_capacity_wh)),
             net_power_profile |->
                 Append(st.net_power_profile, NetPower(regen_w, solar_w, consumption_w)),
             raised |-> FALSE]

\* one iteration of the loop, i counting from 0; f holds the values the loop only reads
LoopBody(f, st, i) ==
    IF st.raised THEN st
    ELSE IF i + 1 > Len(f.regen_power_profile) THEN [st EXCEPT !.raised = TRUE]
    ELSE LET regen_w == f.regen_power_profile[i + 1]
             solar_w == f.solar_power_profile[i + 1]
             consumption_w == f.consumption_power_profile[i + 1]
             energy_in_wh == EnergyWh(regen_w + solar_w, f.dt_sec)
             energy_out_wh == EnergyWh(consumption_w, f.dt_sec)
             net_energy_change_wh == energy_in_wh - energy_out_wh
             soc == Clamp(st.soc_wh + net_energy_change_wh, f.battery_capacity_wh)
         IN [soc_wh |-> soc,
             soc_history_wh |-> Append(st.soc_history_wh, soc),
             net_power_profile |->
                 Append(st.net_power_profile, NetPower(regen_w, solar_w, consumption_w)),
             raised |-> FALSE]

\* iterations lo .. hi-1 in order, ended by the first that raises.  The range is split
\* in halves to keep the evaluation shallow, and the state after the first half is
\* bound as a value (a LET would be evaluated again at each use).
RECURSIVE Loop(_, _, _, _)
Loop(f, st, lo, hi) ==
    IF hi <= lo THEN st
    ELSE IF hi = lo + 1 THEN LoopBody(f, st, lo)
    ELSE LET mid == (lo + hi) \div 2
         IN CHOOSE end \in {IF half.raised THEN half ELSE Loop(f, half, mid, hi) :
                               half \in {Loop(f, st, lo, mid)}} : TRUE

ToKwh(soc) == Rat(soc, WhPerKwh * SecPerHour)

TimeAxis(n, dt_sec) == Array([k \in 1..n |-> Rat((k - 1) * dt_sec, MinuteSec)])


\* np.sum over entries lo .. hi of a profile (split in halves to keep the evaluation shallow)
RECURSIVE SumRange(_, _, _)
SumRange(profile, lo, hi) ==
    IF hi < lo THEN 0
    ELSE IF hi = lo THEN profile[lo]
    ELSE LET mid == (lo + hi) \div 2
         IN SumRange(profile, lo, mid) + SumRange(profile, mid + 1, hi)

SumSkipsFirst(profile) == SumRange(profile, 2, Len(profile))

Sum(profile) == SumRange(profile, 1, Len(profile))

-----------------------------------------------------------------------------
(* rectify_dc *)

rectify_mean(a, b, c) == Array([k \in 1..Len(a) |-> Rat(a[k] + b[k] + c[k], Phases)])

rectify_dc(a, b, c) ==
    Array([k \in 1..Len(a) |->
              Rat(PyMax(a[k], 0) + PyMax(b[k], 0) + PyMax(c[k], 0), Phases)])

-----------------------------------------------------------------------------
(* The inputs of the model *)

Capacities == {1, 2}
SocPercents == {0, 50, 100}
\* <<total_time_sec, dt_sec>>: 0, 1, 2 (with a remainder) and 3 steps
GivenTimings == {<<50, 100>>, <<150, 150>>, <<250, 100>>, <<300, 100>>}
\* 0, 1, 2, 3, 4 (with a remainder) and 5 steps
SynthTimings == {<<50, 100>>, <<150, 150>>, <<300, 150>>, <<300, 100>>, <<450, 100>>,
                 <<600, 120>>}
RegenValues == {-40000, 375, 450, 40000}
SolarValues == {0, 75}
ConsumptionValues == {0, 450}
CurrentValues == {-1, 0, 2}

RECURSIVE SeqsUpTo(_, _)
SeqsUpTo(S, n) ==
    IF n = 0 THEN {<<>>}
    ELSE LET shorter == SeqsUpTo(S, n - 1)
         IN shorter \cup {Append(s, v) : s \in {t \in shorter : Len(t) = n - 1}, v \in S}

MakeArgs(cap, pct, total, dt, given, regen, solar, cons) ==
    [battery_capacity_kwh |-> cap, initial_soc_percent |-> pct,
     total_time_sec |-> total, dt_sec |-> dt,
     regen_given |-> given, regen_power_profile |-> regen,
     solar_power_w |-> solar, consumption_power_w |-> cons]

\* the synthesized profile's samples all fall on quarter periods
SynthExact(total, dt) ==
    LET n == Steps(total, dt)
        ta == Linspace(0, total, n)
    IN \A k \in 1..n : OnQuarter(ta[k])

GivenArgs ==
    {MakeArgs(cap, pct, tm[1], tm[2], TRUE, regen, solar, cons) :
        cap \in Capacities, pct \in SocPercents, tm \in GivenTimings,
        regen \in SeqsUpTo(RegenValues, MaxRegenLen),
        solar \in SolarValues, cons \in ConsumptionValues}

SynthArgs ==
    {MakeArgs(cap, pct, tm[1], tm[2], FALSE, <<>>, solar, cons) :
        cap \in Capacities, pct \in SocPercents,
        tm \in {t \in SynthTimings : SynthExact(t[1], t[2])},
        solar \in SolarValues, cons \in ConsumptionValues}

\* spec.md section 8, boundary scenario: 8 kWh, 100 %, 36000 s, 1 s, regen 0, solar 0, 800 W
BoundaryArgs == MakeArgs(8, 100, 36000, 1, TRUE, Full(36000, 0), 0, 800)

\* spec.md section 8, concrete scenario: 8 kWh, 100 %, 3600 s, 1 s, regen 0, solar 75 W, 450 W
ConcreteArgs == MakeArgs(8, 100, 3600, 1, TRUE, Full(3600, 0), 75, 450)

Args == GivenArgs \cup SynthArgs \cup {BoundaryArgs, ConcreteArgs}

\* the arguments of a call that follows a call with other arguments
FollowUpArgs ==
    {a \in GivenArgs \cup SynthArgs :
        /\ a.battery_capacity_kwh = 2 /\ a.initial_soc_percent = 50
        /\ a.total_time_sec = 300 /\ a.dt_sec = 100
        /\ a.solar_power_w = 75 /\ a.consumption_power_w = 450
        /\ \/ ~a.regen_given
           \/ a.regen_power_profile \in {<<>>, <<40000, 375, -40000>>}}

NoCall == [outcome |-> "none", value |-> <<>>]
NoSummary == [done |-> FALSE]

-----------------------------------------------------------------------------
(* The caller of simulate_battery_scenario *)

Returned ==
    <<time_minutes, soc_history_kwh, regen_power_profile, solar_power_profile,
      net_power_profile>>

Outcome == [outcome |-> pc, value |-> IF pc = "returned" THEN Returned ELSE <<>>]

NoFrame ==
    /\ battery_capacity_wh = 0 /\ soc_wh = 0 /\ steps = 0
    /\ time_array = <<>> /\ regen_power_profile = <<>>
    /\ solar_power_profile = <<>> /\ consumption_power_profile = <<>>
    /\ soc_history_wh = <<>> /\ net_power_profile = <<>>
    /\ soc_history_kwh = <<>> /\ time_minutes = <<>>

\* the frame of a finished call is gone
DropFrame ==
    /\ battery_capacity_wh' = 0 /\ soc_wh' = 0 /\ steps' = 0
    /\ time_array' = <<>> /\ regen_power_profile' = <<>>
    /\ solar_power_profile' = <<>> /\ consumption_power_profile' = <<>>
    /\ soc_history_wh' = <<>> /\ net_power_profile' = <<>>
    /\ soc_history_kwh' = <<>> /\ time_minutes' = <<>>

MotorOff ==
    ia = <<>> /\ ib = <<>> /\ ic = <<>> /\ dc_voltage = <<>> /\ motor_pc = "off"

Init ==
    /\ pc = "ready"
    /\ args \in Args
    /\ ncalls = 0
    /\ prev = NoCall
    /\ NoFrame
    /\ summary = NoSummary
    /\ MotorOff

\* one call of simulate_battery_scenario, from entry to return or to the IndexError
Call ==
    /\ pc = "ready"
    /\ \E f \in {Entry(args)} :
       \E end \in {Loop(f, LoopStart(f.soc_wh), 0, f.steps)} :
          /\ battery_capacity_wh' = f.battery_capacity_wh
          /\ steps' = f.steps
          /\ time_array' = f.time_array
          /\ regen_power_profile' = f.regen_power_profile
          /\ solar_power_profile' = f.solar_power_profile
          /\ consumption_power_profile' = f.consumption_power_profile
          /\ soc_wh' = end.soc_wh
          /\ soc_history_wh' = end.soc_history_wh
          /\ net_power_profile' = end.net_power_profile
          /\ soc_history_kwh' =
                IF end.raised THEN <<>>
                ELSE Array([k \in 1..Len(end.soc_history_wh) |->
                               ToKwh(end.soc_history_wh[k])])
          /\ time_minutes' = IF end.raised THEN <<>> ELSE TimeAxis(f.steps, f.dt_sec)
          /\ pc' = IF end.raised THEN "raised" ELSE "returned"
    /\ ncalls' = ncalls + 1
    /\ summary' = NoSummary
    /\ UNCHANGED <<args, prev, motor_vars>>

\* the caller calls again with the same arguments
Again ==
    /\ pc \in {"returned", "raised"}
    /\ ncalls < MaxCalls
    /\ prev' = Outcome
    /\ pc' = "ready"
    /\ DropFrame
    /\ UNCHANGED <<args, ncalls, summary, motor_vars>>

\* the caller calls again with other arguments
Other ==
    /\ pc \in {"returned", "raised"}
    /\ ncalls < MaxCalls
    /\ args' \in FollowUpArgs \ {args}
    /\ prev' = NoCall
    /\ pc' = "ready"
    /\ DropFrame
    /\ UNCHANGED <<ncalls, summary, motor_vars>>

\* the summary calculations of the script, on what the call returned
Summarize ==
    /\ pc = "returned"
    /\ IF Len(soc_history_kwh) = 0
       THEN /\ pc' = "summary_raised"
            /\ summary' = NoSummary
       ELSE /\ pc' = "summarized"
            /\ summary' =
                 [done |-> TRUE,
                  total_regen_energy_wh |-> EnergyWh(Sum(regen_power_profile), args.dt_sec),
                  total_solar_energy_wh |-> EnergyWh(Sum(solar_power_profile), args.dt_sec),
                  total_consumed_energy_wh |->
                      EnergyWh(args.consumption_power_w, args.total_time_sec),
                  final_soc_kwh |-> soc_history_kwh[Len(soc_history_kwh)]]
    /\ UNCHANGED <<args, ncalls, prev, locals, motor_vars>>

Next == Call \/ Again \/ Other \/ Summarize

Spec == Init /\ [][Next]_vars

-----------------------------------------------------------------------------
(* The script BLDC_motor_simulation.py from the solved currents on *)

RECURSIVE SeqsOfLen(_, _)
SeqsOfLen(S, n) ==
    IF n = 0 THEN {<<>>}
    ELSE {Append(s, v) : s \in SeqsOfLen(S, n - 1), v \in S}

BatteryOff ==
    /\ pc = "off" /\ args = <<>> /\ ncalls = 0 /\ prev = NoCall
    /\ NoFrame /\ summary = NoSummary

\* the solver's samples of the three phase currents: any values, one length
InitRectify ==
    /\ BatteryOff
    /\ motor_pc = "solved"
    /\ \E n \in 1..MaxSamples :
          /\ ia \in SeqsOfLen(CurrentValues, n)
          /\ ib \in SeqsOfLen(CurrentValues, n)
          /\ ic \in SeqsOfLen(CurrentValues, n)
    /\ dc_voltage = <<>>

Rectify ==
    /\ motor_pc = "solved"
    /\ dc_voltage' = rectify_dc(ia, ib, ic)
    /\ motor_pc' = "rectified"
    /\ UNCHANGED <<ia, ib, ic, battery_vars>>

NextRectify == Rectify

SpecRectify == InitRectify /\ [][NextRectify]_vars

-----------------------------------------------------------------------------
(* What the claims speak of, stated from the arguments of the call *)

\* the call is over (and the caller has not yet called again)
Completed == pc \in {"returned", "raised", "summarized", "summary_raised"}
\* the call returned
Finished == pc \in {"returned", "summarized", "summary_raised"}

\* N = floor(total_time_s / step_s)
StepCount == args.total_time_sec \div args.dt_sec
\* capacity and initial SOC in watt-seconds: 1 kWh = 1000 * 3600 Ws, and
\* (percent / 100) * capacity_kWh * 1000 Wh = percent * capacity_kWh * 10 Wh
CapacityWs == args.battery_capacity_kwh * 1000 * 3600
InitialSocWs == args.initial_soc_percent * args.battery_capacity_kwh * 10 * 3600
KwhDen == 1000 * 3600

\* regen[k] + solar[k] - consumption[k] of step k (counted from 1)
NetOfStep(k) == regen_power_profile[k] + args.solar_power_w - args.consumption_power_w
\* the SOC step k starts from, and the SOC it would reach without the clamp
Before(k) == IF k = 1 THEN InitialSocWs ELSE soc_history_wh[k - 1]
Unclamped(k) == Before(k) + NetOfStep(k) * args.dt_sec
ClampTriggered(k) == Unclamped(k) < 0 \/ Unclamped(k) > CapacityWs
NoClampRun == \A k \in 1..Len(soc_history_wh) : ~ClampTriggered(k)

\* <<base + p[lo], base + p[lo] + p[lo+1], ...>> up to p[hi]
RECURSIVE PrefixFrom(_, _, _, _)
PrefixFrom(profile, base, lo, hi) ==
    IF hi < lo THEN <<>>
    ELSE IF hi = lo THEN <<base + profile[lo]>>
    ELSE LET mid == (lo + hi) \div 2
         IN CHOOSE all \in {left \o PrefixFrom(profile, left[Len(left)], mid + 1, hi) :
                               left \in {PrefixFrom(profile, base, lo, mid)}} : TRUE

PrefixSums(profile) == PrefixFrom(profile, 0, 1, Len(profile))

-----------------------------------------------------------------------------
(* C1 *)

\* C1: every recorded entry of the SOC trajectory lies in [0, battery_capacity_kwh],
\* whatever the sign and size of the regen, solar and consumption powers.
C1_SocWithinCapacity ==
    /\ \A k \in 1..Len(soc_history_wh) :
          0 <= soc_history_wh[k] /\ soc_history_wh[k] <= CapacityWs
    /\ \A k \in 1..Len(soc_history_kwh) :
          /\ RatLeq(Rat(0, 1), soc_history_kwh[k])
          /\ RatLeq(soc_history_kwh[k], Rat(args.battery_capacity_kwh, 1))

\* a returned run in which the clamp cut at the top in one step and at the bottom in another
C1_Witness ==
    /\ pc = "returned"
    /\ \E k, j \in 1..Len(soc_history_wh) :
          /\ Unclamped(k) > CapacityWs /\ soc_history_kwh[k].num = CapacityWs
          /\ Unclamped(j) < 0 /\ soc_history_kwh[j].num = 0

-----------------------------------------------------------------------------
(* C2 *)

\* C2: when the net power is <= 0 at every step the SOC trajectory never increases and
\* an SOC of 0, once recorded, is recorded at every later step; in the boundary scenario
\* (8 kWh, 100 %, solar 0, consumption 800 W, regen all 0, 1 s steps, 36000 s) the SOC
\* is positive after every step before the 36000th and exactly 0 after the 36000th.
C2_DrainIsMonotoneAndZeroAbsorbs ==
    /\ (\A k \in 1..Len(net_power_profile) : net_power_profile[k] <= 0) =>
          /\ \A k \in 1..Len(soc_history_wh) : soc_history_wh[k] <= Before(k)
          /\ \A j \in 1..Len(soc_history_wh) :
                soc_history_wh[j] = 0 =>
                    \A k \in j..Len(soc_history_wh) : soc_history_wh[k] = 0
    /\ (Finished /\ args = BoundaryArgs) =>
          /\ Len(soc_history_kwh) = 36000
          /\ \A k \in 1..35999 : soc_history_kwh[k].num > 0 /\ soc_history_kwh[k].den > 0
          /\ RatEq(soc_history_kwh[36000], Rat(0, 1))

\* a returned run of steps that all drain or hold: the SOC is positive after one
\* step, 0 after a later one, and 0 again after a draining step that follows
C2_Witness ==
    /\ pc = "returned"
    /\ \A k \in 1..Len(net_power_profile) : net_power_profile[k] <= 0
    /\ \E j, k, l \in 1..Len(soc_history_wh) :
          /\ j < k /\ k < l
          /\ soc_history_wh[j] > 0
          /\ soc_history_wh[k] = 0
          /\ net_power_profile[l] < 0 /\ soc_history_wh[l] = 0

-----------------------------------------------------------------------------
(* C3 *)

\* C3: on a run where the clamp is never triggered, the SOC recorded after k steps is
\* the initial SOC plus the sum over the first k steps of net power * step_s / 3600; in
\* the concrete scenario (8 kWh, 100 %, solar 75 W, consumption 450 W, regen all 0,
\* 3600 s, 1 s steps) the net power is -375 W at each of the 3600 steps, the clamp is
\* never triggered and the last recorded SOC is 7625 Wh = 7.625 kWh (61/8 kWh).
C3_UnclampedRunIsRunningSum ==
    /\ NoClampRun =>
          \A sums \in {PrefixSums(net_power_profile)} :
              \A k \in 1..Len(soc_history_wh) :
                  soc_history_wh[k] = InitialSocWs + sums[k] * args.dt_sec
    /\ (Finished /\ args = ConcreteArgs) =>
          /\ Len(net_power_profile) = 3600
          /\ \A k \in 1..3600 : net_power_profile[k] = -375
          /\ NoClampRun
          /\ soc_history_wh[3600] = 7625 * 3600
          /\ RatEq(soc_history_kwh[3600], Rat(61, 8))

\* the concrete scenario has returned
C3_Witness ==
    /\ pc = "returned"
    /\ args = ConcreteArgs
    /\ NoClampRun
    /\ Len(soc_history_kwh) = 3600

-----------------------------------------------------------------------------
(* C4 *)

-----------------------------------------------------------------------------
(* C5 *)

\* C5: without a supplied regen profile the call synthesizes N entries, entry i being
\* 75 * (1 + sin(2 pi t_i / 600)) at the sample time t_i = i * step_s, the instants of
\* the returned time axis.
C5_SynthSampledOnTimeAxis ==
    (Finished /\ ~args.regen_given) =>
        /\ Len(regen_power_profile) = StepCount
        /\ Len(time_array) = StepCount
        /\ \A k \in 1..StepCount :
              /\ RatEq(time_array[k], Rat((k - 1) * args.dt_sec, 1))
              /\ OnQuarter(Rat((k - 1) * args.dt_sec, 1)) =>
                    regen_power_profile[k] = SynthRegen(Rat((k - 1) * args.dt_sec, 1))

-----------------------------------------------------------------------------
(* C6 *)

Pos(x) == IF x > 0 THEN x ELSE 0

\* C6: rectify_dc returns, at every sample, the mean of the three phase currents each
\* clamped to >= 0; the output is >= 0 at every sample, and is 0 exactly when all three
\* currents of the sample are <= 0.
C6_RectifiedIsNonNegativeMean ==
    motor_pc = "rectified" =>
        /\ Len(dc_voltage) = Len(ia)
        /\ \A k \in 1..Len(dc_voltage) :
              /\ RatEq(dc_voltage[k], Rat(Pos(ia[k]) + Pos(ib[k]) + Pos(ic[k]), 3))
              /\ dc_voltage[k].den > 0
              /\ dc_voltage[k].num >= 0
              /\ (dc_voltage[k].num = 0) <=> (ia[k] <= 0 /\ ib[k] <= 0 /\ ic[k] <= 0)

\* rectified samples of both kinds: a negative current among none positive, giving 0,
\* and a negative current beside a positive one
C6_Witness ==
    /\ motor_pc = "rectified"
    /\ \E k, j \in 1..Len(dc_voltage) :
          /\ ia[k] < 0 /\ ib[k] <= 0 /\ ic[k] <= 0 /\ dc_voltage[k].num = 0
          /\ ia[j] < 0 /\ ib[j] > 0 /\ dc_voltage[j].num > 0

-----------------------------------------------------------------------------
(* C7 *)

\* C7: the net power recorded for step i is regen[i] + solar[i] - consumption[i] at
\* every step, those the clamp cut included, and the regen and solar profiles returned
\* are the input values.
C7_NetPowerIsUnclampedBalance ==
    /\ \A k \in 1..Len(net_power_profile) : net_power_profile[k] = NetOfStep(k)
    /\ Finished =>
          /\ Len(net_power_profile) = StepCount
          /\ args.regen_given => regen_power_profile = args.regen_power_profile
          /\ Len(solar_power_profile) = StepCount
          /\ \A k \in 1..StepCount : solar_power_profile[k] = args.solar_power_w

\* a returned run with a step that found the battery full and had positive net power,
\* and a step that found it empty and had negative net power
C7_Witness ==
    /\ pc = "returned"
    /\ \E k, j \in 1..Len(net_power_profile) :
          /\ Before(k) = CapacityWs /\ net_power_profile[k] > 0
          /\ Before(j) = 0 /\ net_power_profile[j] < 0

-----------------------------------------------------------------------------
(* C8 *)

ClampedTo(x, top) == IF x < 0 THEN 0 ELSE IF x > top THEN top ELSE x

\* C8: each step sets the SOC to min(max(SOC_prev + net * step_s / 3600, 0), capacity),
\* SOC_prev being the clamped SOC of the step before: what the clamp cut is not carried.
C8_StepFromClampedPrevious ==
    \A k \in 1..Len(soc_history_wh) :
        soc_history_wh[k] = ClampedTo(Unclamped(k), CapacityWs)

\* a step cut at capacity is followed by a draining step, which starts from capacity
C8_Witness ==
    /\ pc = "returned"
    /\ \E k \in 2..Len(soc_history_wh) :
          /\ Unclamped(k - 1) > CapacityWs
          /\ NetOfStep(k) < 0
          /\ soc_history_wh[k] = CapacityWs + NetOfStep(k) * args.dt_sec
          /\ soc_history_wh[k] > 0

-----------------------------------------------------------------------------
(* C9 *)

OtherFourHaveLength(n) ==
    /\ Len(time_minutes) = n /\ Len(soc_history_kwh) = n
    /\ Len(solar_power_profile) = n /\ Len(net_power_profile) = n

\* C9 as claimed: the call returns, and its five sequences all have length N, also when
\* the caller supplies a regen profile of any length.
C9_AnyProfileLengthReturnsN ==
    Completed =>
        /\ pc # "raised"
        /\ Len(regen_power_profile) = StepCount
        /\ OtherFourHaveLength(StepCount)

\* C9 amended: the call returns five sequences of length N, entry i of the time axis
\* being i * step_s / 60, when the regen profile is synthesized or supplied with exactly
\* N entries; with fewer the call raises at the first step without an entry, with more
\* it returns the supplied profile at its own length beside four sequences of length N.
C9_MatchingProfileReturnsN ==
    Completed =>
        /\ (~args.regen_given \/ Len(args.regen_power_profile) = StepCount) =>
              /\ pc # "raised"
              /\ Len(regen_power_profile) = StepCount
              /\ OtherFourHaveLength(StepCount)
              /\ \A k \in 1..StepCount :
                    RatEq(time_minutes[k], Rat((k - 1) * args.dt_sec, 60))
        /\ (args.regen_given /\ Len(args.regen_power_profile) < StepCount) =>
              /\ pc = "raised"
              /\ Len(soc_history_wh) = Len(args.regen_power_profile)
        /\ (args.regen_given /\ Len(args.regen_power_profile) > StepCount) =>
              /\ pc # "raised"
              /\ Len(regen_power_profile) = Len(args.regen_power_profile)
              /\ OtherFourHaveLength(StepCount)

\* a call with a supplied profile of exactly N = 3 entries has returned
C9_Witness ==
    /\ pc = "returned"
    /\ args.regen_given
    /\ StepCount = 3
    /\ Len(args.regen_power_profile) = 3
    /\ OtherFourHaveLength(3)

-----------------------------------------------------------------------------
(* C10 *)

SummaryBalances ==
    /\ summary.final_soc_kwh.den = KwhDen
    /\ summary.final_soc_kwh.num =
          InitialSocWs + summary.total_regen_energy_wh + summary.total_solar_energy_wh
              - summary.total_consumed_energy_wh

\* C10 as claimed: on a run where the clamp is never triggered the final SOC is the
\* initial SOC plus the summary's regen and solar totals minus its consumed total, for
\* every total_time_s and step_s.
C10_SummaryBalancesAlways ==
    (pc = "summarized" /\ NoClampRun) => SummaryBalances

\* C10 amended: the balance holds on such a run when total_time_s is a whole multiple
\* of step_s and the regen profile returned has N entries.
C10_SummaryBalancesOnWholeSteps ==
    (/\ pc = "summarized"
     /\ NoClampRun
     /\ args.total_time_sec % args.dt_sec = 0
     /\ Len(regen_power_profile) = StepCount) => SummaryBalances

\* a summarized run of three whole steps with consumption, regen that varies, no clamp
C10_Witness ==
    /\ pc = "summarized"
    /\ NoClampRun
    /\ args.total_time_sec = 3 * args.dt_sec
    /\ Len(regen_power_profile) = 3
    /\ regen_power_profile[1] # regen_power_profile[2]
    /\ args.consumption_power_w > 0
    /\ args.solar_power_w > 0

====
